---- MODULE Spec2Model ----
(***************************************************************************)
(* Model of salt/pillar/mongo.py: the mongo ext_pillar.                    *)
(*                                                                         *)
(* One resolution is one call of ext_pillar: connect, select the database, *)
(* authenticate when credentials are configured, rewrite the minion id     *)
(* with re.sub when a pattern is given, then either get_find_one or        *)
(* get_aggregate.  The store (a pymongo database) is the environment: its  *)
(* contents are fixed for a behaviour, its find_one and aggregate are      *)
(* computed from those contents, and any of its operations may fail.       *)
(*                                                                         *)
(* Text is a sequence of one-character strings.  A stored value is         *)
(* [t, v]: t = "str" for text, t = "oid" for a store-native ObjectId whose *)
(* hexadecimal digits are v.  A Python value that may be None is           *)
(* [isNone, val].                                                          *)
(***************************************************************************)
EXTENDS Naturals, Sequences, FiniteSets, TLC

VARIABLES
    store,            \* collection name -> documents in natural order
    opts,             \* __opts__: whether mongo.user and mongo.password are both set
    pc,               \* position of the running ext_pillar call
    req,              \* arguments of the running ext_pillar call
    minion_id,        \* ext_pillar's local minion_id (rebound by re.sub)
    caller_aggregate, \* the caller's list object passed as `aggregate`
    calls,            \* operations issued to the store by this call, in order
    log,              \* diagnostics emitted by this call, in order
    ret,              \* how the call ended: pending, returned a value, raised
    first             \* outcome of the preceding call, kept when the same
                      \* request is resolved again with `fields` omitted

vars == <<store, opts, pc, req, minion_id, caller_aggregate, calls, log, ret, first>>

----------------------------------------------------------------------------
(* Bounds *)

MaxIdLen == 2      \* longest minion id
MaxDocs  == 2      \* most documents held by a collection
MaxPipe  == 2      \* longest caller-supplied pipeline

----------------------------------------------------------------------------
(* Values *)

None      == [isNone |-> TRUE,  val |-> <<>>]
Some(x)   == [isNone |-> FALSE, val |-> x]

EmptyMap  == <<>>

Str(s)    == [t |-> "str", v |-> s]
Oid(h)    == [t |-> "oid", v |-> h]

\* six.text_type(x): text stays as it is, an ObjectId becomes its hex digits
text_type(x) == IF x.t = "oid" THEN Str(x.v) ELSE x

SeqsUpTo(S, n) == UNION {[1..k -> S] : k \in 0..n}

Range(s) == {s[i] : i \in DOMAIN s}

Restrict(d, S) == [f \in (DOMAIN d) \cap S |-> d[f]]

----------------------------------------------------------------------------
(* The environment: what ext_pillar can be called with and what the store   *)
(* can hold.                                                                *)

Alphabet    == {"w", "."}
Collections == {"pillar", "vm"}
IdFields    == {"_id", "name"}

\* minion ids: a host character followed by up to MaxIdLen - 1 characters
MinionIds   == {<<"w">> \o s : s \in SeqsUpTo(Alphabet, MaxIdLen - 1)}

\* re_pattern: None, or a pattern of escaped (literal) characters
Patterns     == {None, Some(<<".">>)}
\* re_replace: '' (the default) or a literal text
Replacements == {<<>>, <<"w">>}
\* fields: None, [] or a list of field names
FieldLists   == {None, Some(<<>>), Some(<<"role">>)}

MatchStage(id_field, id) == [op |-> "$match", f |-> id_field, v |-> id]
UnsetId  == [op |-> "$unset", f |-> "_id", v |-> <<>>]
BadStage == [op |-> "$bad",   f |-> "",    v |-> <<>>]
Stages   == {UnsetId, BadStage}
\* aggregate: None, or a list of stages (possibly empty)
Aggregates == {None} \cup {Some(p) : p \in SeqsUpTo(Stages, MaxPipe)}

Requests ==
    [minion_id : MinionIds, collection : Collections, id_field : IdFields,
     re_pattern : Patterns, re_replace : Replacements,
     fields : FieldLists, aggregate : Aggregates]

DocA == ("_id" :> Oid(<<"1">>)) @@ ("name" :> Str(<<"w">>)) @@ ("role" :> Str(<<"x">>))
DocB == ("_id" :> Oid(<<"2">>)) @@ ("name" :> Str(<<"w">>)) @@ ("role" :> Str(<<"y">>))
DocC == ("_id" :> Str(<<"w">>)) @@ ("role" :> Str(<<"z">>))
DocUniverse == {DocA, DocB, DocC}

\* sequences of distinct documents (_id is unique within a collection)
DocSeqs == {s \in SeqsUpTo(DocUniverse, MaxDocs) :
                \A i, j \in DOMAIN s : i # j => s[i]["_id"] # s[j]["_id"]}

\* the database: "pillar" holds the documents, "vm" exists and is empty
Stores == {[c \in Collections |-> IF c = "pillar" THEN s ELSE <<>>] : s \in DocSeqs}

----------------------------------------------------------------------------
(* The store's two queries, as pymongo answers them.                        *)

Matches(d, f, v) == f \in DOMAIN d /\ d[f] = Str(v)

\* Collection.find_one(filter, projection=fields): the first matching
\* document or None; a list projection keeps the listed fields and _id.
find_one(mdb, collection, id_field, id, fields) ==
    LET m == SelectSeq(mdb[collection], LAMBDA d : Matches(d, id_field, id))
    IN  IF m = <<>> THEN None
        ELSE IF fields.isNone THEN Some(m[1])
        ELSE Some(Restrict(m[1], Range(fields.val) \cup {"_id"}))

ApplyStage(st, docs) ==
    CASE st.op = "$match" -> SelectSeq(docs, LAMBDA d : Matches(d, st.f, st.v))
      [] st.op = "$unset" -> [i \in DOMAIN docs |-> Restrict(docs[i], (DOMAIN docs[i]) \ {st.f})]
      [] OTHER            -> docs

RECURSIVE RunPipeline(_, _)
RunPipeline(pipeline, docs) ==
    IF pipeline = <<>> THEN docs
    ELSE RunPipeline(Tail(pipeline), ApplyStage(Head(pipeline), docs))

\* Collection.aggregate(pipeline): fails on a stage the store cannot parse,
\* otherwise a cursor over the documents the stages produce, in order.
aggregate(mdb, collection, pipeline) ==
    IF \E i \in DOMAIN pipeline : pipeline[i].op = "$bad"
    THEN [ok |-> FALSE, docs |-> <<>>]
    ELSE [ok |-> TRUE,  docs |-> RunPipeline(pipeline, mdb[collection])]

\* bool(cursor): a pymongo cursor object is always true
CursorTruthy(docs) == TRUE

----------------------------------------------------------------------------
(* Records of what a call did.                                              *)

Call(op, collection, f, v, proj, pipe, err) ==
    [op |-> op, coll |-> collection, f |-> f, v |-> v, proj |-> proj,
     pipe |-> pipe, err |-> err]

ConnectCall(err) == Call("connect", "", "", <<>>, None, <<>>, err)
AuthCall(err)    == Call("authenticate", "", "", <<>>, None, <<>>, err)

Log(level, msg) == [level |-> level, msg |-> msg]

Pending       == [kind |-> "pending",  val |-> None, err |-> ""]
Returned(v)   == [kind |-> "returned", val |-> v,    err |-> ""]

\* faulty variant: the failure is caught and an empty pillar returned
Swallowed(err) == [kind |-> "returned", val |-> Some(EmptyMap), err |-> ""]

\* an exception that leaves ext_pillar: nothing in it catches one
Raised(err)   == [kind |-> "raised", val |-> None, err |-> err]

----------------------------------------------------------------------------
(* The module's functions.                                                  *)

\* re.sub(pattern, repl, string) for a non-empty literal pattern: every
\* non-overlapping occurrence, leftmost first, is replaced by repl.
StartsWith(s, p) == Len(s) >= Len(p) /\ SubSeq(s, 1, Len(p)) = p

RECURSIVE re_sub(_, _, _)
re_sub(pattern, repl, string) ==
    IF string = <<>> THEN <<>>
    ELSE IF StartsWith(string, pattern)
    THEN repl \o re_sub(pattern, repl, SubSeq(string, Len(pattern) + 1, Len(string)))
    ELSE <<Head(string)>> \o re_sub(pattern, repl, Tail(string))

\* faulty variant: a missing pattern is taken to be the escaped dot
NormalizeId_DefaultPattern(r) ==
    re_sub(IF ~r.re_pattern.isNone /\ r.re_pattern.val # <<>>
           THEN r.re_pattern.val ELSE <<".">>,
           r.re_replace, r.minion_id)

\* `if re_pattern:` is false for None and for the empty pattern
NormalizeId(r) ==
    IF ~r.re_pattern.isNone /\ r.re_pattern.val # <<>>
    THEN re_sub(r.re_pattern.val, r.re_replace, r.minion_id)
    ELSE r.minion_id

\* result["_id"] = six.text_type(result["_id"])
StringifyId(result) ==
    IF "_id" \in DOMAIN result
    THEN [result EXCEPT !["_id"] = text_type(@)]
    ELSE result

\* get_find_one: the query it issues, the diagnostics and the value returned
get_find_one(mdb, collection, id_field, id, fields) ==
    LET result == find_one(mdb, collection, id_field, id, fields)
        call   == Call("find_one", collection, id_field, id, fields, <<>>, "")
    IN  IF ~result.isNone /\ DOMAIN result.val # {}
        THEN [call |-> call,
              logs |-> <<IF ~fields.isNone /\ fields.val # <<>>
                         THEN Log("debug", "found document, returning fields")
                         ELSE Log("debug", "found document, returning whole doc")>>,
              ret  |-> Returned(Some(StringifyId(result.val)))]
        ELSE [call |-> call,
              logs |-> <<Log("debug", "no document found in collection")>>,
              ret  |-> Returned(Some(EmptyMap))]

\* faulty variant: the match stage is appended after the caller's stages
BuildPipeline_MatchLast(id_field, id, agg) == agg \o <<MatchStage(id_field, id)>>

\* pipeline = [{"$match": {id_field: minion_id}}] followed by every stage of
\* `aggregate`, appended one by one
BuildPipeline(id_field, id, agg) == <<MatchStage(id_field, id)>> \o agg

\* faulty variant: an empty output falls through and returns None
AggregateResult_NoneOnEmpty(results) ==
    IF Len(results) = 0
    THEN [logs |-> <<Log("error", "pipeline returned no results")>>,
          ret  |-> Returned(None)]
    ELSE IF Len(results) > 1
    THEN [logs |-> <<Log("error", "pipeline returned more than one result")>>,
          ret  |-> Returned(None)]
    ELSE [logs |-> <<>>, ret |-> Returned(Some(results[1]))]

\* faulty variant: more than one result is reported as a warning only
AggregateResult_Warns(results) ==
    IF Len(results) = 0
    THEN [logs |-> <<Log("error", "pipeline returned no results")>>,
          ret  |-> Returned(Some(EmptyMap))]
    ELSE IF Len(results) > 1
    THEN [logs |-> <<Log("warning", "pipeline returned more than one result")>>,
          ret  |-> Returned(None)]
    ELSE [logs |-> <<>>, ret |-> Returned(Some(results[1]))]

\* get_aggregate after the store has answered with the cursor `results`
AggregateResult(results) ==
    IF CursorTruthy(results)
    THEN IF Len(results) = 0
         THEN [logs |-> <<Log("error", "pipeline returned no results")>>,
               ret  |-> Returned(Some(EmptyMap))]
         ELSE IF Len(results) > 1
         THEN \* the branch only logs; the function ends without a return
              [logs |-> <<Log("error", "pipeline returned more than one result")>>,
               ret  |-> Returned(None)]
         ELSE [logs |-> <<>>,
               ret  |-> Returned(Some(results[1]))]
    ELSE [logs |-> <<Log("debug", "no response from pipeline")>>,
          ret  |-> Returned(Some(EmptyMap))]

\* get_aggregate: the query it issues, the diagnostics, the value returned
\* (or the store's failure), and the caller's list after the call
get_aggregate(mdb, collection, id_field, id, agg) ==
    LET pipeline == BuildPipeline(id_field, id, agg)
        resp     == aggregate(mdb, collection, pipeline)
        out      == AggregateResult(resp.docs)
    IN  IF resp.ok
        THEN [call |-> Call("aggregate", collection, "", <<>>, None, pipeline, ""),
              logs |-> out.logs, ret |-> out.ret, agg |-> agg]
        ELSE [call |-> Call("aggregate", collection, "", <<>>, None, pipeline,
                            "OperationFailure"),
              logs |-> <<>>, ret |-> Raised("OperationFailure"), agg |-> agg]

\* faulty variant: `fields`, when given, selects find_one
UsesFindOne_FieldsWin(r) == r.aggregate.isNone \/ ~r.fields.isNone

\* faulty variant: `if not aggregate`, so an empty list selects find_one
UsesFindOne_Falsy(r) == r.aggregate.isNone \/ r.aggregate.val = <<>>

\* ext_pillar's choice of strategy: `if aggregate is None`
UsesFindOne(r) == r.aggregate.isNone

----------------------------------------------------------------------------
(* State machine                                                            *)

NoRequest ==
    [minion_id |-> <<>>, collection |-> "", id_field |-> "", re_pattern |-> None,
     re_replace |-> <<>>, fields |-> None, aggregate |-> None]

NoFirst == [set |-> FALSE, req |-> NoRequest, calls |-> <<>>, ret |-> Pending]

Init ==
    /\ store \in Stores
    /\ opts \in [creds : BOOLEAN]
    /\ pc = "idle"
    /\ req = NoRequest
    /\ minion_id = <<>>
    /\ caller_aggregate = None
    /\ calls = <<>>
    /\ log = <<>>
    /\ ret = Pending
    /\ first = NoFirst

Enter(r) ==
    /\ req' = r
    /\ minion_id' = r.minion_id
    /\ caller_aggregate' = r.aggregate
    /\ calls' = <<>>
    /\ log' = <<>>
    /\ ret' = Pending
    /\ pc' = "connect"

\* a caller invokes ext_pillar(minion_id, pillar, **config)
ext_pillar ==
    /\ pc = "idle"
    /\ \E r \in Requests : Enter(r)
    /\ first' = NoFirst
    /\ UNCHANGED <<store, opts>>

\* the caller resolves the same request once more with `fields` left out
ext_pillar_again ==
    /\ pc = "done"
    /\ ret.kind = "returned"
    /\ ~first.set
    /\ ~req.fields.isNone
    /\ first' = [set |-> TRUE, req |-> req, calls |-> calls, ret |-> ret]
    /\ Enter([req EXCEPT !.fields = None])
    /\ UNCHANGED <<store, opts>>

\* ext_pillar returns or raises; its locals are discarded
Return ==
    /\ pc = "done"
    /\ pc' = "idle"
    /\ req' = NoRequest
    /\ minion_id' = <<>>
    /\ caller_aggregate' = None
    /\ calls' = <<>>
    /\ log' = <<>>
    /\ ret' = Pending
    /\ first' = NoFirst
    /\ UNCHANGED <<store, opts>>

\* conn = get_connection(host, port); mdb = conn[__opts__['mongo.db']]
get_connection ==
    /\ pc = "connect"
    /\ calls' = Append(calls, ConnectCall(""))
    /\ log' = log \o <<Log("info", "connecting"), Log("debug", "using database")>>
    /\ pc' = IF opts.creds THEN "auth" ELSE "lookup"
    /\ UNCHANGED <<store, opts, req, minion_id, caller_aggregate, ret, first>>

get_connection_fails ==
    /\ pc = "connect"
    /\ calls' = Append(calls, ConnectCall("ConnectionFailure"))
    /\ log' = Append(log, Log("info", "connecting"))
    /\ ret' = Raised("ConnectionFailure")
    /\ pc' = "done"
    /\ UNCHANGED <<store, opts, req, minion_id, caller_aggregate, first>>

\* mdb = authenticate_connection(mdb, user, password)
authenticate_connection ==
    /\ pc = "auth"
    /\ calls' = Append(calls, AuthCall(""))
    /\ log' = Append(log, Log("debug", "authenticating"))
    /\ pc' = "lookup"
    /\ UNCHANGED <<store, opts, req, minion_id, caller_aggregate, ret, first>>

authenticate_connection_fails ==
    /\ pc = "auth"
    /\ calls' = Append(calls, AuthCall("OperationFailure"))
    /\ log' = Append(log, Log("debug", "authenticating"))
    /\ ret' = Raised("OperationFailure")
    /\ pc' = "done"
    /\ UNCHANGED <<store, opts, req, minion_id, caller_aggregate, first>>

\* the rest of ext_pillar when aggregate is None
LookupFindOne ==
    /\ pc = "lookup"
    /\ UsesFindOne(req)
    /\ LET id  == NormalizeId(req)
           out == get_find_one(store, req.collection, req.id_field, id, req.fields)
       IN  /\ minion_id' = id
           /\ calls' = Append(calls, out.call)
           /\ log' = log \o <<Log("info", "looking up pillar def")>> \o out.logs
           /\ ret' = out.ret
    /\ pc' = "done"
    /\ UNCHANGED <<store, opts, req, caller_aggregate, first>>

\* the rest of ext_pillar when an aggregate is given
LookupAggregate ==
    /\ pc = "lookup"
    /\ ~UsesFindOne(req)
    /\ LET id  == NormalizeId(req)
           out == get_aggregate(store, req.collection, req.id_field, id,
                                caller_aggregate.val)
       IN  /\ minion_id' = id
           /\ caller_aggregate' = Some(out.agg)
           /\ calls' = Append(calls, out.call)
           /\ log' = log \o <<Log("info", "looking up pillar def")>> \o out.logs
           /\ ret' = out.ret
    /\ pc' = "done"
    /\ UNCHANGED <<store, opts, req, first>>

\* the store cannot be reached while the query runs
LookupFails ==
    /\ pc = "lookup"
    /\ LET id   == NormalizeId(req)
           call == IF UsesFindOne(req)
                   THEN get_find_one(store, req.collection, req.id_field, id,
                                     req.fields).call
                   ELSE get_aggregate(store, req.collection, req.id_field, id,
                                      caller_aggregate.val).call
       IN  /\ minion_id' = id
           /\ calls' = Append(calls, [call EXCEPT !.err = "AutoReconnect"])
           /\ log' = Append(log, Log("info", "looking up pillar def"))
           /\ ret' = Raised("AutoReconnect")
    /\ pc' = "done"
    /\ UNCHANGED <<store, opts, req, caller_aggregate, first>>

Next ==
    \/ ext_pillar
    \/ ext_pillar_again
    \/ Return
    \/ get_connection
    \/ get_connection_fails
    \/ authenticate_connection
    \/ authenticate_connection_fails
    \/ LookupFindOne
    \/ LookupAggregate
    \/ LookupFails

Spec == Init /\ [][Next]_vars

----------------------------------------------------------------------------
(* Vocabulary of the properties                                             *)

IsQuery(c)  == c.op \in {"find_one", "aggregate"}
Queries     == SelectSeq(calls, IsQuery)
Finished    == pc = "done"

\* the call reached its query: connecting and authenticating went well
ReachedQuery ==
    /\ Finished
    /\ \A i \in DOMAIN calls : ~IsQuery(calls[i]) => calls[i].err = ""

\* the call issued a pipeline and the store answered it
PipelineAnswered ==
    /\ Finished
    /\ ~req.aggregate.isNone
    /\ Len(Queries) = 1
    /\ Queries[1].op = "aggregate"
    /\ Queries[1].err = ""

\* the documents the store produces for the pipeline that was issued
PipelineOutput == aggregate(store, Queries[1].coll, Queries[1].pipe).docs

\* the call issued a find_one and the store answered it
FindOneAnswered ==
    /\ Finished
    /\ req.aggregate.isNone
    /\ Len(Queries) = 1
    /\ Queries[1].op = "find_one"
    /\ Queries[1].err = ""

\* the documents of the request's collection matching {id_field: lookup key}
Matching ==
    SelectSeq(store[req.collection], LAMBDA d : Matches(d, req.id_field, minion_id))

ReturnedMap == ret.kind = "returned" /\ ~ret.val.isNone

----------------------------------------------------------------------------
(* C1: when the issued pipeline produces two or more documents, the call    *)
(* returns the first of them, in pipeline-output order, and does not raise. *)
C1_FirstOfMany ==
    (PipelineAnswered /\ Len(PipelineOutput) >= 2)
        => /\ ReturnedMap
           /\ ret.val.val \in {PipelineOutput[1], StringifyId(PipelineOutput[1])}

(* C2: a returned mapping that holds `_id` holds it as text, whichever      *)
(* strategy produced the mapping.                                           *)
C2_IdIsText ==
    (Finished /\ ReturnedMap /\ "_id" \in DOMAIN ret.val.val)
        => ret.val.val["_id"].t = "str"

(* C3: when no document matches {id_field: lookup key} (find_one finds      *)
(* nothing, or the issued pipeline produces no document), the call returns  *)
(* the empty mapping: it neither raises nor returns None.                   *)
C3_NotFoundIsEmpty ==
    /\ (FindOneAnswered /\ Matching = <<>>) => ret = Returned(Some(EmptyMap))
    /\ (PipelineAnswered /\ PipelineOutput = <<>>) => ret = Returned(Some(EmptyMap))

C3_Witness ==
    /\ PipelineAnswered
    /\ store[req.collection] # <<>>
    /\ PipelineOutput = <<>>
    /\ ret = Returned(Some(EmptyMap))

(* C4: a request with a pipeline, resolved with some `fields` and then      *)
(* again with `fields` left out against the same store, issues the same     *)
(* store operations both times, an aggregate and no find_one, and returns   *)
(* the same value both times.                                               *)
C4_FieldsIgnored ==
    (Finished /\ first.set /\ ret.kind = "returned" /\ ~req.aggregate.isNone)
        => /\ first.req = [req EXCEPT !.fields = first.req.fields]
           /\ calls = first.calls
           /\ ret = first.ret
           /\ \A i \in DOMAIN calls : calls[i].op # "find_one"
           /\ \E i \in DOMAIN calls : calls[i].op = "aggregate"

C4_Witness ==
    /\ Finished /\ first.set /\ ret.kind = "returned"
    /\ ~req.aggregate.isNone
    /\ first.req.fields = Some(<<"role">>)
    /\ req.fields = None
    /\ ReturnedMap
    /\ DOMAIN ret.val.val = {"_id", "name", "role"}

(* C5: find_one strategy with a non-empty `fields`: the returned mapping    *)
(* has no key outside `fields`.                                             *)
C5_OnlyRequestedFields ==
    (FindOneAnswered /\ ~req.fields.isNone /\ req.fields.val # <<>> /\ ReturnedMap)
        => DOMAIN ret.val.val \subseteq Range(req.fields.val)

(* C6: with no re_pattern, the filter sent to the store carries the minion  *)
(* id exactly as given, in the find_one filter and in the pipeline's match  *)
(* stage alike, whatever re_replace is.                                     *)
C6_NoPatternKeepsId ==
    (Finished /\ req.re_pattern.isNone /\ Queries # <<>>)
        => LET q == Queries[1]
           IN  IF q.op = "find_one"
               THEN q.f = req.id_field /\ q.v = req.minion_id
               ELSE /\ q.pipe # <<>>
                    /\ q.pipe[1] = [op |-> "$match", f |-> req.id_field,
                                    v |-> req.minion_id]

C6_Witness ==
    /\ Finished
    /\ req.re_pattern.isNone
    /\ req.re_replace = <<"w">>
    /\ req.minion_id = <<"w", ".">>
    /\ Len(Queries) = 1
    /\ Queries[1].op = "aggregate"
    /\ Queries[1].pipe[1].v = <<"w", ".">>

(* C7: a store operation that fails is the last one of its call, the call   *)
(* ends by raising that failure and returns nothing; no call queries the    *)
(* store more than once.                                                    *)
C7_FailurePropagates ==
    /\ Len(Queries) <= 1
    /\ \A i \in DOMAIN calls :
          calls[i].err # ""
              => /\ i = Len(calls)
                 /\ pc = "done"
                 /\ ret.kind = "raised"
                 /\ ret.err = calls[i].err
                 /\ ret.val = None

C7_Witness ==
    /\ Finished
    /\ Len(Queries) = 1
    /\ Queries[1].op = "aggregate"
    /\ Queries[1].err = "OperationFailure"
    /\ ret.kind = "raised"
    /\ ret.err = "OperationFailure"

(* C8: the stages passed to aggregate are the match stage                   *)
(* {id_field: lookup key} followed by the caller's stages, all of them, in  *)
(* the caller's order; the caller's list is left as it was.                 *)
C8_PipelineConstruction ==
    /\ pc # "idle" => caller_aggregate = req.aggregate
    /\ \A i \in DOMAIN calls :
          calls[i].op = "aggregate"
              => LET P == req.aggregate.val
                     S == calls[i].pipe
                 IN  /\ Len(S) = Len(P) + 1
                     /\ S[1] = [op |-> "$match", f |-> req.id_field, v |-> minion_id]
                     /\ \A k \in 1..Len(P) : S[k + 1] = P[k]

C8_Witness ==
    /\ Finished
    /\ req.aggregate = Some(<<UnsetId, BadStage>>)
    /\ req.re_pattern = Some(<<".">>)
    /\ req.minion_id = <<"w", ".">>
    /\ Len(Queries) = 1
    /\ Queries[1].pipe = <<[op |-> "$match", f |-> req.id_field, v |-> <<"w">>],
                           UnsetId, BadStage>>

(* C9: a call that reaches its query issues exactly one: a find_one on the  *)
(* request's collection with filter {id_field: lookup key} exactly when no  *)
(* aggregate is given, an aggregate on that collection exactly when one is  *)
(* given, even an empty one; never both; and a document it returns is one   *)
(* that query produced.                                                     *)
QueryDocs(q) ==
    IF q.op = "find_one"
    THEN LET r == find_one(store, q.coll, q.f, q.v, q.proj)
         IN  IF r.isNone THEN {} ELSE {r.val}
    ELSE Range(aggregate(store, q.coll, q.pipe).docs)

C9_ExactlyOneStrategy ==
    /\ Len(Queries) <= 1
    /\ ReachedQuery
          => /\ Len(Queries) = 1
             /\ LET q == Queries[1]
                IN  /\ (q.op = "find_one") <=> req.aggregate.isNone
                    /\ (q.op = "aggregate") <=> ~req.aggregate.isNone
                    /\ q.coll = req.collection
                    /\ q.op = "find_one" => (q.f = req.id_field /\ q.v = minion_id)
                    /\ (ReturnedMap /\ ret.val.val # EmptyMap)
                          => \E d \in QueryDocs(q) :
                                ret.val.val \in {d, StringifyId(d)}

C9_Witness ==
    /\ ReachedQuery
    /\ req.aggregate = Some(<<>>)
    /\ Len(Queries) = 1
    /\ Queries[1].op = "aggregate"
    /\ ReturnedMap
    /\ ret.val.val # EmptyMap

(* C10: in the pipeline strategy, an output of no document and an output of *)
(* more than one document each leave an error-level diagnostic, and the     *)
(* call does not raise.                                                     *)
C10_ArityDiagnostics ==
    (PipelineAnswered /\ Len(PipelineOutput) # 1)
        => /\ \E i \in DOMAIN log : log[i].level = "error"
           /\ ret.kind = "returned"

C10_Witness ==
    /\ PipelineAnswered
    /\ Len(PipelineOutput) > 1
    /\ \E i \in DOMAIN log : log[i].level = "error"
    /\ ret.kind = "returned"

====
